---- MODULE Spec2Model ----
(***************************************************************************)
(* The local deployment orchestrator of CareCanvas AI                      *)
(* (src/src/lib/local-deployment.ts) together with the HTTP handlers of    *)
(* src/src/app/api/projects/[id]/route.ts that drive it.                   *)
(*                                                                         *)
(* Strings are sequences of one-character strings, so that the id          *)
(* derivation (generateProjectName, the timestamp suffix) is computed and  *)
(* not assumed.  A directory under <cwd>/generated-apps is named by its    *)
(* last path component; a project's path field is that component.          *)
(***************************************************************************)
EXTENDS Integers, Sequences, FiniteSets, TLC

\* ------------------------------------------------------------------ bounds

\* number of deployLocally calls made in a behaviour
MaxDeploys == 2
\* last value of the millisecond clock (the clock starts at 1)
MaxClock == 3
Deploys == 1..MaxDeploys

\* the form titles handed to deployLocally; the id of the first at clock 1 is
\* spelled like the second
Titles == { <<"A">>, <<"a", "-", "1">> }

\* the form title of the single call of SpecOps
OpsTitle == <<"A">>

\* the maximum ages handed to cleanupOldProjects
MaxAges == {0, 1}

\* an id no deployment produces (it holds no "-")
UnknownId == <<"x">>

\* ------------------------------------------------------- program constants

StartPort == 3001
ScanLen == 100
NameMaxLen == 50
NoPort == 0
NoProcess == 0

NoUrl == <<>>
NoError == <<>>

\* ------------------------------------------------------------ pure helpers

Min(a, b) == IF a < b THEN a ELSE b

toLowerCase(c) ==
    CASE c = "A" -> "a"
      [] c = "B" -> "b"
      [] OTHER -> c

IsAlnum(c) == c \in {"a", "b", "0", "1", "2", "3", "4", "5", "6", "7", "8", "9"}
IsSpace(c) == c \in {" "}

RECURSIVE MapLower(_)
MapLower(s) ==
    IF s = <<>> THEN <<>> ELSE <<toLowerCase(Head(s))>> \o MapLower(Tail(s))

\* .replace(/[^a-z0-9\s]/g, '')
RECURSIVE StripOthers(_)
StripOthers(s) ==
    IF s = <<>> THEN <<>>
    ELSE (IF IsAlnum(Head(s)) \/ IsSpace(Head(s)) THEN <<Head(s)>> ELSE <<>>)
         \o StripOthers(Tail(s))

RECURSIVE DropSpaces(_)
DropSpaces(s) ==
    IF s # <<>> /\ IsSpace(Head(s)) THEN DropSpaces(Tail(s)) ELSE s

\* .replace(/\s+/g, '-')
RECURSIVE DashSpaces(_)
DashSpaces(s) ==
    IF s = <<>> THEN <<>>
    ELSE IF IsSpace(Head(s)) THEN <<"-">> \o DashSpaces(DropSpaces(s))
    ELSE <<Head(s)>> \o DashSpaces(Tail(s))

generateProjectName(formTitle) ==
    LET s == DashSpaces(StripOthers(MapLower(formTitle)))
    IN  SubSeq(s, 1, Min(NameMaxLen, Len(s)))

DigitChar(n) ==
    CASE n = 0 -> "0" [] n = 1 -> "1" [] n = 2 -> "2" [] n = 3 -> "3"
      [] n = 4 -> "4" [] n = 5 -> "5" [] n = 6 -> "6" [] n = 7 -> "7"
      [] n = 8 -> "8" [] OTHER -> "9"

\* the decimal digits of Date.now() in the template string
RECURSIVE Decimal(_)
Decimal(n) ==
    IF n < 10 THEN <<DigitChar(n)>>
    ELSE Decimal(n \div 10) \o <<DigitChar(n % 10)>>

\* `${projectName}-${Date.now()}`
ProjectId(formTitle, t) == generateProjectName(formTitle) \o <<"-">> \o Decimal(t)

\* `http://localhost:${port}`
UrlOf(port) == <<"http://localhost:", port>>

NewProject(id, formTitle, t) ==
    [id |-> id, name |-> formTitle, path |-> id, port |-> NoPort,
     process |-> NoProcess, status |-> "creating", url |-> NoUrl,
     error |-> NoError, createdAt |-> t]

\* Map.set / Map.delete on a function whose domain is the set of keys
MapSet(m, k, v) == [x \in DOMAIN m \cup {k} |-> IF x = k THEN v ELSE m[x]]
MapDelete(m, k) == [x \in DOMAIN m \ {k} |-> m[x]]

Last(s) == s[Len(s)]

\* ------------------------------------------------------------------- state

VARIABLES
    now,        \* the millisecond clock (Date.now(), new Date())
    pc,         \* pc[d]: where deployLocally call d is suspended
    proj,       \* proj[d]: the local object `project` of call d
    thrown,     \* thrown[d]: the error call d threw to its caller
    registry,   \* runningProjects: project id -> record
    obs,        \* obs[d]: the status values the registry has shown for the
                \* id of call d while the call was running
    dirs,       \* names of the directories under <cwd>/generated-apps
    extBound,   \* ports held by other programs
    probe,      \* probe[d]: the port findAvailablePort of call d is at
    proc,       \* proc[d]: the dev-server child process of call d
    isReady,    \* isReady[d]: the flag of startDevServer
    timer,      \* timer[d]: the 30 s startup timer of startDevServer
    killed,     \* killed[d]: kill() was called on the child of call d
    sweep,      \* the cleanupOldProjects call in flight
    del,        \* the DELETE request in flight
    out         \* what the last request returned to its caller, or the last
                \* failure that was logged and swallowed

vars == <<now, pc, proj, thrown, registry, obs, dirs, extBound, probe, proc,
          isReady, timer, killed, sweep, del, out>>

NoProject == NewProject(<<>>, <<>>, 0)
AllPorts == StartPort .. (StartPort + ScanLen - 1)
\* cleanupOldProjects: `now`, `maxAge`, the listing `list` and the position
\* `idx` of the loop in it, the directory `target` being removed
IdleSweep == [pc |-> "idle", now |-> 0, maxAge |-> 0, list |-> <<>>,
              idx |-> 0, target |-> <<>>]
IdleDelete == [pc |-> "idle", id |-> <<>>, project |-> NoProject, target |-> <<>>]
NoCall == [op |-> "none", id |-> <<>>, res |-> "none"]

\* findAvailablePort(startPort): `port` is the loop variable; `busy` are the
\* ports whose probe resolved false
NewScan(startPort) == [start |-> startPort, port |-> startPort, busy |-> {}]
NoScan == NewScan(NoPort)

Probing == {"probing", "scanning"}

\* the ports a listen() fails on
BoundPorts ==
    extBound \cup {probe[d].port : d \in {e \in Deploys : pc[e] \in Probing}}
             \cup {proj[d].port : d \in {e \in Deploys : proc[e] = "listening"}}

\* the suspension points of deployLocally
InFlight == {"structure", "write", "widgets", "install", "port", "probing", "launch"}

\* the order deployLocally writes the status values in
StatusOrder == <<"creating", "installing", "starting", "running">>

IsPrefix(a, b) == Len(a) <= Len(b) /\ a = SubSeq(b, 1, Len(a))

\* a status written to the registry under id, as the running calls see it:
\* the sequence of distinct values, kept up to the first one out of order
See(o, status) ==
    IF o # <<>> /\ Last(o) = status THEN o
    ELSE IF IsPrefix(o, StatusOrder) THEN Append(o, status)
    ELSE o
Observe(id, status) ==
    [d \in Deploys |->
        IF pc[d] \in InFlight /\ proj[d].id = id THEN See(obs[d], status) ELSE obs[d]]

Init ==
    /\ now = 1
    /\ pc = [d \in Deploys |-> "idle"]
    /\ proj = [d \in Deploys |-> NoProject]
    /\ thrown = [d \in Deploys |-> NoError]
    /\ registry = <<>>
    /\ obs = [d \in Deploys |-> <<>>]
    /\ dirs = {}
    /\ extBound \in {{}, AllPorts}
    /\ probe = [d \in Deploys |-> NoScan]
    /\ proc = [d \in Deploys |-> "none"]
    /\ isReady = [d \in Deploys |-> FALSE]
    /\ timer = [d \in Deploys |-> "off"]
    /\ killed = [d \in Deploys |-> FALSE]
    /\ sweep = IdleSweep
    /\ del = IdleDelete
    /\ out = NoCall

\* ------------------------------------------------------------ deployLocally

\* runningProjects.set(projectId, {...project})
SetRegistry(id, rec) ==
    /\ registry' = MapSet(registry, id, rec)
    /\ obs' = Observe(id, rec.status)

\* a catch block that unregisters the failed project instead of recording the
\* failure
CatchUnregisters(d, msg) ==
    LET p == [proj[d] EXCEPT !.status = "error", !.error = msg]
    IN  /\ proj' = [proj EXCEPT ![d] = p]
        /\ registry' = MapDelete(registry, p.id)
        /\ obs' = Observe(p.id, p.status)
        /\ thrown' = [thrown EXCEPT ![d] = msg]
        /\ pc' = [pc EXCEPT ![d] = "failed"]

\* a catch block that records the message and leaves the status as it was
CatchMessageOnly(d, msg) ==
    LET p == [proj[d] EXCEPT !.error = msg]
    IN  /\ proj' = [proj EXCEPT ![d] = p]
        /\ SetRegistry(p.id, p)
        /\ thrown' = [thrown EXCEPT ![d] = msg]
        /\ pc' = [pc EXCEPT ![d] = "failed"]

\* the catch block of deployLocally
Catch(d, msg) ==
    LET p == [proj[d] EXCEPT !.status = "error", !.error = msg]
    IN  /\ proj' = [proj EXCEPT ![d] = p]
        /\ SetRegistry(p.id, p)
        /\ thrown' = [thrown EXCEPT ![d] = msg]
        /\ pc' = [pc EXCEPT ![d] = "failed"]

Tick ==
    /\ now < MaxClock
    /\ now' = now + 1
    /\ UNCHANGED <<pc, proj, thrown, registry, obs, dirs, extBound, probe,
                   proc, isReady, timer, killed, sweep, del, out>>

\* lines 217-234: the record is made and registered, createProjectStructure begins
Deploy(d, formTitle) ==
    /\ pc[d] = "idle"
    /\ \A e \in Deploys : e < d => pc[e] # "idle"
    /\ LET id == ProjectId(formTitle, now)
           p == NewProject(id, formTitle, now)
       IN  /\ proj' = [proj EXCEPT ![d] = p]
           /\ registry' = MapSet(registry, id, p)
           /\ obs' = [Observe(id, p.status) EXCEPT ![d] = <<p.status>>]
    /\ pc' = [pc EXCEPT ![d] = "structure"]
    /\ UNCHANGED <<now, thrown, dirs, extBound, probe, proc, isReady, timer,
                   killed, sweep, del, out>>

CreateStructureOk(d) ==
    /\ pc[d] = "structure"
    /\ dirs' = dirs \cup {proj[d].path}
    /\ pc' = [pc EXCEPT ![d] = "write"]
    /\ UNCHANGED <<now, proj, thrown, registry, obs, extBound, probe, proc,
                   isReady, timer, killed, sweep, del, out>>

\* a mkdir rejects; `made`: the base directory was made before it
CreateStructureFail(d, made) ==
    /\ pc[d] = "structure"
    /\ dirs' = IF made THEN dirs \cup {proj[d].path} ELSE dirs
    /\ Catch(d, <<"mkdir failed">>)
    /\ UNCHANGED <<now, extBound, probe, proc, isReady, timer, killed, sweep,
                   del, out>>

WriteFilesOk(d) ==
    /\ pc[d] = "write"
    /\ dirs' = dirs \cup {proj[d].path}
    /\ pc' = [pc EXCEPT ![d] = "widgets"]
    /\ UNCHANGED <<now, proj, thrown, registry, obs, extBound, probe, proc,
                   isReady, timer, killed, sweep, del, out>>

WriteFilesFail(d, made) ==
    /\ pc[d] = "write"
    /\ dirs' = IF made THEN dirs \cup {proj[d].path} ELSE dirs
    /\ Catch(d, <<"writeFile failed">>)
    /\ UNCHANGED <<now, extBound, probe, proc, isReady, timer, killed, sweep,
                   del, out>>

\* a copyWidgetLibrary that lets its failure reach the catch of deployLocally
CopyWidgetsThrows(d, ok) ==
    /\ pc[d] = "widgets"
    /\ dirs' = IF ok THEN dirs \cup {proj[d].path} ELSE dirs
    /\ IF ok
       THEN LET p == [proj[d] EXCEPT !.status = "installing"]
            IN  /\ proj' = [proj EXCEPT ![d] = p]
                /\ SetRegistry(p.id, p)
                /\ pc' = [pc EXCEPT ![d] = "install"]
                /\ UNCHANGED <<thrown, out>>
       ELSE /\ Catch(d, <<"readdir failed">>)
            /\ out' = [op |-> "copyWidgetLibrary", id |-> proj[d].id,
                       res |-> "logged"]
    /\ UNCHANGED <<now, extBound, probe, proc, isReady, timer, killed,
                   sweep, del>>

\* copyWidgetLibrary swallows its failure and logs it (lines 101-104); then
\* lines 243-245
CopyWidgets(d, ok) ==
    /\ pc[d] = "widgets"
    /\ dirs' = IF ok THEN dirs \cup {proj[d].path} ELSE dirs
    /\ out' = IF ok THEN out
              ELSE [op |-> "copyWidgetLibrary", id |-> proj[d].id, res |-> "logged"]
    /\ LET p == [proj[d] EXCEPT !.status = "installing"]
       IN  /\ proj' = [proj EXCEPT ![d] = p]
           /\ SetRegistry(p.id, p)
    /\ pc' = [pc EXCEPT ![d] = "install"]
    /\ UNCHANGED <<now, thrown, extBound, probe, proc, isReady, timer, killed,
                   sweep, del>>

\* what npm install has written to stderr and to stdout when it closes
ErrTexts == {<<>>, <<"ENOTFOUND">>}
OutTexts == {<<>>, <<"audited">>}

\* a close handler that prefers stdout to stderr in its message
InstallCloseStdoutFirst(d, code, stderr, stdout) ==
    /\ pc[d] = "install"
    /\ IF code = 0
       THEN /\ pc' = [pc EXCEPT ![d] = "port"]
            /\ probe' = [probe EXCEPT ![d] = NewScan(StartPort)]
            /\ UNCHANGED <<proj, thrown, registry, obs>>
       ELSE /\ Catch(d, <<"npm install failed: ">>
                        \o (IF stdout # <<>> THEN stdout ELSE stderr))
            /\ UNCHANGED probe
    /\ UNCHANGED <<now, dirs, extBound, proc, isReady, timer, killed, sweep,
                   del, out>>

\* runNpmCommand: the 'close' event of npm install
InstallClose(d, code, stderr, stdout) ==
    /\ pc[d] = "install"
    /\ IF code = 0
       THEN /\ pc' = [pc EXCEPT ![d] = "port"]
            /\ probe' = [probe EXCEPT ![d] = NewScan(StartPort)]
            /\ UNCHANGED <<proj, thrown, registry, obs>>
       ELSE /\ Catch(d, <<"npm install failed: ">>
                        \o (IF stderr # <<>> THEN stderr ELSE stdout))
            /\ UNCHANGED probe
    /\ UNCHANGED <<now, dirs, extBound, proc, isReady, timer, killed, sweep,
                   del, out>>

\* a deployLocally that goes on to the port scan after npm failed to spawn
InstallErrorIgnored(d) ==
    /\ pc[d] = "install"
    /\ pc' = [pc EXCEPT ![d] = "port"]
    /\ probe' = [probe EXCEPT ![d] = NewScan(StartPort)]
    /\ UNCHANGED <<now, proj, thrown, registry, obs, dirs, extBound, proc,
                   isReady, timer, killed, sweep, del, out>>

\* runNpmCommand: the 'error' event of the spawn
InstallError(d) ==
    /\ pc[d] = "install"
    /\ Catch(d, <<"spawn npm ENOENT">>)
    /\ UNCHANGED <<now, dirs, extBound, probe, proc, isReady, timer, killed,
                   sweep, del, out>>

\* isPortAvailable: server.listen(port) calls back, or emits 'error'
isPortAvailable(port) == port \notin BoundPorts

\* a loop condition that lets the scan reach startPort + ScanLen
InScanInclusive(port, startPort) == port <= startPort + ScanLen

\* the loop condition of findAvailablePort
InScan(port, startPort) == port < startPort + ScanLen

\* port++ after a probe that resolved false
NextProbe(s) == [s EXCEPT !.port = s.port + 1, !.busy = s.busy \cup {s.port}]

\* findAvailablePort: one server.listen(port)
PortListen(d) ==
    /\ pc[d] = "port"
    /\ IF isPortAvailable(probe[d].port)
       THEN /\ pc' = [pc EXCEPT ![d] = "probing"]
            /\ UNCHANGED <<probe, proj, thrown, registry, obs>>
       ELSE /\ probe' = [probe EXCEPT ![d] = NextProbe(probe[d])]
            /\ IF InScan(probe[d].port + 1, probe[d].start)
               THEN UNCHANGED <<pc, proj, thrown, registry, obs>>
               ELSE Catch(d, <<"No available ports found">>)
    /\ UNCHANGED <<now, dirs, extBound, proc, isReady, timer, killed, sweep,
                   del, out>>

\* lines 249-256 with the url built from the default port
PortCloseDefaultUrl(d) ==
    /\ pc[d] = "probing"
    /\ LET p == [proj[d] EXCEPT !.port = probe[d].port,
                                !.url = UrlOf(StartPort),
                                !.status = "starting"]
       IN  /\ proj' = [proj EXCEPT ![d] = p]
           /\ SetRegistry(p.id, p)
    /\ proc' = [proc EXCEPT ![d] = "spawned"]
    /\ timer' = [timer EXCEPT ![d] = "armed"]
    /\ pc' = [pc EXCEPT ![d] = "launch"]
    /\ UNCHANGED <<now, thrown, dirs, extBound, probe, isReady, killed, sweep,
                   del, out>>

\* findAvailablePort: server.close, the port is returned; then lines 249-256
PortClose(d) ==
    /\ pc[d] = "probing"
    /\ LET p == [proj[d] EXCEPT !.port = probe[d].port,
                                !.url = UrlOf(probe[d].port),
                                !.status = "starting"]
       IN  /\ proj' = [proj EXCEPT ![d] = p]
           /\ SetRegistry(p.id, p)
    /\ proc' = [proc EXCEPT ![d] = "spawned"]
    /\ timer' = [timer EXCEPT ![d] = "armed"]
    /\ pc' = [pc EXCEPT ![d] = "launch"]
    /\ UNCHANGED <<now, thrown, dirs, extBound, probe, isReady, killed, sweep,
                   del, out>>

\* findAvailablePort(startPort) called on its own: the same loop, returning
\* to its caller
FindPort(d, startPort) ==
    /\ pc[d] = "idle"
    /\ pc' = [pc EXCEPT ![d] = "scan"]
    /\ probe' = [probe EXCEPT ![d] = NewScan(startPort)]
    /\ UNCHANGED <<now, proj, thrown, registry, obs, dirs, extBound, proc,
                   isReady, timer, killed, sweep, del, out>>

ScanListen(d) ==
    /\ pc[d] = "scan"
    /\ IF isPortAvailable(probe[d].port)
       THEN /\ pc' = [pc EXCEPT ![d] = "scanning"]
            /\ UNCHANGED <<probe, thrown>>
       ELSE /\ probe' = [probe EXCEPT ![d] = NextProbe(probe[d])]
            /\ IF InScan(probe[d].port + 1, probe[d].start)
               THEN UNCHANGED <<pc, thrown>>
               ELSE /\ pc' = [pc EXCEPT ![d] = "threw"]
                    /\ thrown' = [thrown EXCEPT ![d] = <<"No available ports found">>]
    /\ UNCHANGED <<now, proj, registry, obs, dirs, extBound, proc, isReady,
                   timer, killed, sweep, del, out>>

ScanClose(d) ==
    /\ pc[d] = "scanning"
    /\ pc' = [pc EXCEPT ![d] = "returned"]
    /\ UNCHANGED <<now, proj, thrown, registry, obs, dirs, extBound, probe,
                   proc, isReady, timer, killed, sweep, del, out>>

\* another program binds a free port, or releases one it holds
ExtBind(p) ==
    /\ p \notin BoundPorts
    /\ extBound' = extBound \cup {p}
    /\ UNCHANGED <<now, pc, proj, thrown, registry, obs, dirs, probe, proc,
                   isReady, timer, killed, sweep, del, out>>

ExtRelease(p) ==
    /\ p \in extBound
    /\ extBound' = extBound \ {p}
    /\ UNCHANGED <<now, pc, proj, thrown, registry, obs, dirs, probe, proc,
                   isReady, timer, killed, sweep, del, out>>

\* ----------------------------------------------------------- startDevServer

Streams == {"stdout", "stderr"}
\* what a chunk of output holds: one of the sentinels, or none
Chunks == {"Ready in", "Local:", "localhost:port", "other"}

\* lines 162 and 175: the readiness test of each stream's 'data' handler
IsReadySignal(stream, chunk) ==
    IF stream = "stdout"
    THEN chunk \in {"Ready in", "Local:", "localhost:port"}
    ELSE chunk \in {"Ready in", "Local:"}

Alive(d) == proc[d] \in {"spawned", "listening"}

\* the dev server binds the port it was given
ProcListen(d) ==
    /\ proc[d] = "spawned"
    /\ proj[d].port \notin BoundPorts
    /\ proc' = [proc EXCEPT ![d] = "listening"]
    /\ UNCHANGED <<now, pc, proj, thrown, registry, obs, dirs, extBound,
                   probe, isReady, timer, killed, sweep, del, out>>

\* a 'data' event that holds a readiness signal while isReady is false (any
\* other chunk is only logged): the promise resolves, and if it was pending
\* deployLocally continues at lines 257-268
ProcData(d, stream, chunk) ==
    /\ Alive(d)
    /\ IsReadySignal(stream, chunk)
    /\ ~isReady[d]
    /\ isReady' = [isReady EXCEPT ![d] = TRUE]
    /\ IF pc[d] = "launch"
       THEN LET p == [proj[d] EXCEPT !.process = d, !.status = "running"]
            IN  /\ proj' = [proj EXCEPT ![d] = p]
                /\ SetRegistry(p.id, p)
                /\ pc' = [pc EXCEPT ![d] = "done"]
       ELSE UNCHANGED <<pc, proj, registry, obs>>
    /\ UNCHANGED <<now, thrown, dirs, extBound, probe, proc, timer, killed,
                   sweep, del, out>>

ExitCodes == {1}

\* the child's 'close' event: startDevServer's handler (lines 187-191), then
\* the handler deployLocally registered once it was running (lines 263-266)
ProcClose(d, code) ==
    /\ Alive(d)
    /\ proc' = [proc EXCEPT ![d] = "closed"]
    /\ IF ~isReady[d] /\ pc[d] = "launch"
       THEN Catch(d, <<"Dev server exited with code ", code>>)
       ELSE IF pc[d] = "done"
       THEN LET p == [proj[d] EXCEPT !.status = "stopped"]
            IN  /\ proj' = [proj EXCEPT ![d] = p]
                /\ SetRegistry(p.id, p)
                /\ UNCHANGED <<pc, thrown>>
       ELSE UNCHANGED <<pc, proj, thrown, registry, obs>>
    /\ UNCHANGED <<now, dirs, extBound, probe, isReady, timer, killed, sweep,
                   del, out>>

\* the child's 'error' event: the spawn failed
ProcError(d) ==
    /\ proc[d] = "spawned"
    /\ pc[d] = "launch"
    /\ proc' = [proc EXCEPT ![d] = "closed"]
    /\ Catch(d, <<"spawn npm ENOENT">>)
    /\ UNCHANGED <<now, dirs, extBound, probe, isReady, timer, killed, sweep,
                   del, out>>

\* a timer that rejects the startup without killing the child
StartupTimeoutNoKill(d) ==
    /\ timer[d] = "armed"
    /\ timer' = [timer EXCEPT ![d] = "fired"]
    /\ IF ~isReady[d] /\ pc[d] = "launch"
       THEN Catch(d, <<"Dev server startup timeout">>)
       ELSE UNCHANGED <<pc, proj, thrown, registry, obs>>
    /\ UNCHANGED <<now, dirs, extBound, probe, proc, isReady, killed, sweep,
                   del, out>>

\* the setTimeout of lines 194-199
StartupTimeout(d) ==
    /\ timer[d] = "armed"
    /\ timer' = [timer EXCEPT ![d] = "fired"]
    /\ IF ~isReady[d]
       THEN /\ killed' = [killed EXCEPT ![d] = TRUE]
            /\ IF pc[d] = "launch"
               THEN Catch(d, <<"Dev server startup timeout">>)
               ELSE UNCHANGED <<pc, proj, thrown, registry, obs>>
       ELSE UNCHANGED <<killed, pc, proj, thrown, registry, obs>>
    /\ UNCHANGED <<now, dirs, extBound, probe, proc, isReady, sweep, del, out>>

\* --------------------------------------------- stopProject and the handlers

\* the ids deployLocally has handed out, and one it never did
ReqIds == {proj[d].id : d \in {e \in Deploys : pc[e] # "idle"}} \cup {UnknownId}

\* lines 280-283: stopProject throws 'Project not found'
StopThrows(id) == id \notin DOMAIN registry

\* a stopProject that takes the stopped project out of the registry
StopUnregisters(id) ==
    LET r == registry[id]
    IN  /\ killed' = IF r.process # NoProcess
                     THEN [killed EXCEPT ![r.process] = TRUE]
                     ELSE killed
        /\ registry' = MapDelete(registry, id)
        /\ obs' = Observe(id, "stopped")

\* a stopProject that marks the record stopped whether or not it has a process
StopAnyStatus(id) ==
    LET r == registry[id]
    IN  /\ killed' = IF r.process # NoProcess
                     THEN [killed EXCEPT ![r.process] = TRUE]
                     ELSE killed
        /\ SetRegistry(id, [r EXCEPT !.status = "stopped"])

\* lines 285-289 of stopProject, for a registered id
StopEffect(id) ==
    LET r == registry[id]
    IN  IF r.process # NoProcess
        THEN /\ killed' = [killed EXCEPT ![r.process] = TRUE]
             /\ SetRegistry(id, [r EXCEPT !.status = "stopped"])
        ELSE UNCHANGED <<killed, registry, obs>>

\* stopProject called as the library function it is exported as
StopProject(id) ==
    /\ IF StopThrows(id)
       THEN /\ out' = [op |-> "stopProject", id |-> id, res |-> "throws"]
            /\ UNCHANGED <<killed, registry, obs>>
       ELSE /\ StopEffect(id)
            /\ out' = [op |-> "stopProject", id |-> id, res |-> "ok"]
    /\ UNCHANGED <<now, pc, proj, thrown, dirs, extBound, probe, proc, isReady,
                   timer, sweep, del>>

PatchActions == {"stop", "start"}

\* getProject / getRunningProjects
HasProject(id) == id \in DOMAIN registry
getRunningProjects == {registry[id] : id \in DOMAIN registry}

\* the status of the response of PATCH /api/projects/[id]
PatchResponse(id, action) ==
    IF ~HasProject(id) THEN "404"
    ELSE IF action # "stop" THEN "400"
    ELSE IF StopThrows(id) THEN "500"
    ELSE "200"

\* PATCH /api/projects/[id]
Patch(id, action) ==
    /\ out' = [op |-> "PATCH", id |-> id, res |-> PatchResponse(id, action)]
    /\ IF PatchResponse(id, action) = "200"
       THEN StopEffect(id)
       ELSE UNCHANGED <<killed, registry, obs>>
    /\ UNCHANGED <<now, pc, proj, thrown, dirs, extBound, probe, proc, isReady,
                   timer, sweep, del>>

\* GET /api/projects/[id]
Get(id) ==
    /\ out' = [op |-> "GET", id |-> id,
               res |-> IF HasProject(id) THEN "200" ELSE "404"]
    /\ UNCHANGED <<now, pc, proj, thrown, registry, obs, dirs, extBound,
                   probe, proc, isReady, timer, killed, sweep, del>>

\* the directory DELETE removes: path.join(projectsDir, project.name)
DeleteTarget(project) == project.name

\* the status of the response of DELETE /api/projects/[id]
DeleteResponse(id) ==
    IF ~HasProject(id) THEN "404"
    ELSE IF registry[id].status = "running" /\ StopThrows(id) THEN "500"
    ELSE "200"

\* DELETE /api/projects/[id], up to the await of fs.rm (lines 81-100)
DeleteBegin(id) ==
    /\ del.pc = "idle"
    /\ IF DeleteResponse(id) # "200"
       THEN /\ out' = [op |-> "DELETE", id |-> id, res |-> DeleteResponse(id)]
            /\ UNCHANGED <<killed, registry, obs, del>>
       ELSE /\ IF registry[id].status = "running"
               THEN StopEffect(id)
               ELSE UNCHANGED <<killed, registry, obs>>
            /\ del' = [pc |-> "rm", id |-> id, project |-> registry[id],
                       target |-> DeleteTarget(registry[id])]
            /\ UNCHANGED out
    /\ UNCHANGED <<now, pc, proj, thrown, dirs, extBound, probe, proc, isReady,
                   timer, sweep>>

\* a DELETE whose fs.rm is not wrapped in its own try: a failure reaches the
\* outer catch and is answered with 500
DeleteRmUncaught(ok) ==
    /\ del.pc = "rm"
    /\ dirs' = IF ok THEN dirs \ {del.target} ELSE dirs
    /\ out' = [op |-> "DELETE", id |-> del.id,
               res |-> IF ok THEN "200" ELSE "500"]
    /\ del' = IdleDelete
    /\ UNCHANGED <<now, pc, proj, thrown, registry, obs, extBound, probe,
                   proc, isReady, timer, killed, sweep>>

\* fs.rm(projectPath, {recursive, force}) settles; a failure is only warned
DeleteRm(ok) ==
    /\ del.pc = "rm"
    /\ dirs' = IF ok THEN dirs \ {del.target} ELSE dirs
    /\ out' = [op |-> "DELETE", id |-> del.id, res |-> "200"]
    /\ del' = IdleDelete
    /\ UNCHANGED <<now, pc, proj, thrown, registry, obs, extBound, probe,
                   proc, isReady, timer, killed, sweep>>

\* --------------------------------------------------------- cleanupOldProjects

\* an age test that also takes a record whose age equals the maximum
IsOldInclusive(project, t, maxAge) == t - project.createdAt >= maxAge

\* line 313: (now - project.createdAt.getTime()) > maxAge
IsOld(project, t, maxAge) == t - project.createdAt > maxAge

\* the orders readdir may list a set of names in
Listings(S) ==
    {l \in [1..Cardinality(S) -> S] : \A i, j \in 1..Cardinality(S) : l[i] = l[j] => i = j}

\* the directory the sweep removes: path.join(generatedAppsPath, projectId)
SweepTarget(projectId) == projectId

\* the next listed name after idx the loop body acts on, 0 when none is left
NextMatch(list, idx) ==
    LET C == {j \in (idx + 1)..Len(list) :
                 /\ list[j] \in DOMAIN registry
                 /\ IsOld(registry[list[j]], sweep.now, sweep.maxAge)}
    IN  IF C = {} THEN 0 ELSE CHOOSE j \in C : \A k \in C : j <= k

\* the for loop of lines 310-330 from the name after idx to its next await,
\* or to its end, where the sweep returns
SweepLoop(list, idx) ==
    LET j == NextMatch(list, idx)
    IN  IF j = 0
        THEN /\ sweep' = IdleSweep
             /\ out' = [op |-> "cleanupOldProjects", id |-> <<>>, res |-> "swept"]
             /\ UNCHANGED <<killed, registry, obs>>
        ELSE LET r == registry[list[j]]
             IN  /\ killed' = IF r.process # NoProcess
                             THEN [killed EXCEPT ![r.process] = TRUE]
                             ELSE killed
                 /\ registry' = MapDelete(registry, list[j])
                 /\ obs' = obs
                 /\ sweep' = [sweep EXCEPT !.pc = "rm", !.list = list,
                                           !.idx = j,
                                           !.target = SweepTarget(list[j])]
                 /\ UNCHANGED out

\* cleanupOldProjects(maxAge) is called: lines 304-308
SweepBegin(maxAge) ==
    /\ sweep.pc = "idle"
    /\ sweep' = [IdleSweep EXCEPT !.pc = "readdir", !.now = now,
                                  !.maxAge = maxAge]
    /\ UNCHANGED <<now, pc, proj, thrown, registry, obs, dirs, extBound,
                   probe, proc, isReady, timer, killed, del, out>>

\* readdir resolves with the names under generated-apps
SweepReaddirOk(list) ==
    /\ sweep.pc = "readdir"
    /\ list \in Listings(dirs)
    /\ SweepLoop(list, 0)
    /\ UNCHANGED <<now, pc, proj, thrown, dirs, extBound, probe, proc, isReady,
                   timer, del>>

\* readdir rejects: the outer catch logs 'Error during cleanup' and the sweep ends
SweepReaddirFail ==
    /\ sweep.pc = "readdir"
    /\ sweep' = IdleSweep
    /\ out' = [op |-> "cleanupOldProjects", id |-> <<>>, res |-> "readdir failed"]
    /\ UNCHANGED <<now, pc, proj, thrown, registry, obs, dirs, extBound,
                   probe, proc, isReady, timer, killed, del>>

\* a sweep whose inner catch is missing: a failed fs.rm reaches the outer
\* catch, which ends the sweep
SweepRmAborts(ok) ==
    /\ sweep.pc = "rm"
    /\ ok => sweep.target \in dirs
    /\ dirs' = IF ok THEN dirs \ {sweep.target} ELSE dirs
    /\ IF ok
       THEN SweepLoop(sweep.list, sweep.idx)
       ELSE /\ sweep' = IdleSweep
            /\ out' = [op |-> "cleanupOldProjects", id |-> <<>>, res |-> "swept"]
            /\ UNCHANGED <<killed, registry, obs>>
    /\ UNCHANGED <<now, pc, proj, thrown, extBound, probe, proc, isReady,
                   timer, del>>

\* fs.rm(.., {recursive}) settles; a failure is logged and the loop goes on
SweepRm(ok) ==
    /\ sweep.pc = "rm"
    /\ ok => sweep.target \in dirs
    /\ dirs' = IF ok THEN dirs \ {sweep.target} ELSE dirs
    /\ SweepLoop(sweep.list, sweep.idx)
    /\ UNCHANGED <<now, pc, proj, thrown, extBound, probe, proc, isReady,
                   timer, del>>

\* ------------------------------------------------------------ specification

Pipeline(d) ==
    \/ CreateStructureOk(d)
    \/ \E made \in BOOLEAN : CreateStructureFail(d, made)
    \/ WriteFilesOk(d)
    \/ \E made \in BOOLEAN : WriteFilesFail(d, made)
    \/ \E ok \in BOOLEAN : CopyWidgets(d, ok)
    \/ \E code \in {0, 1}, e \in ErrTexts, o \in OutTexts : InstallClose(d, code, e, o)
    \/ InstallError(d)
    \/ PortListen(d)
    \/ PortClose(d)

DevServer(d) ==
    \/ ProcListen(d)
    \/ \E s \in Streams, c \in Chunks : ProcData(d, s, c)
    \/ \E code \in ExitCodes : ProcClose(d, code)
    \/ ProcError(d)
    \/ StartupTimeout(d)

Sweep ==
    \/ \E m \in MaxAges : SweepBegin(m)
    \/ \E l \in Listings(dirs) : SweepReaddirOk(l)
    \/ SweepReaddirFail
    \/ \E ok \in BOOLEAN : SweepRm(ok)

Handlers ==
    \/ \E id \in ReqIds, a \in PatchActions : Patch(id, a)
    \/ \E id \in ReqIds : Get(id)
    \/ \E id \in ReqIds : DeleteBegin(id)
    \/ \E ok \in BOOLEAN : DeleteRm(ok)

\* Spec: MaxDeploys concurrent deployLocally calls made at one reading of the
\* clock (two of them share an id exactly when their titles normalise alike),
\* their child processes and stopProject
Next ==
    \/ \E d \in Deploys, t \in Titles : Deploy(d, t)
    \/ \E d \in Deploys : Pipeline(d)
    \/ \E d \in Deploys : DevServer(d)
    \/ \E id \in ReqIds : StopProject(id)

Spec == Init /\ [][Next]_vars

\* SpecOps: one deployLocally call, with the clock running, under the sweeps
\* and the HTTP handlers

NextOps ==
    \/ Tick
    \/ Deploy(1, OpsTitle)
    \/ Pipeline(1)
    \/ DevServer(1)
    \/ \E id \in ReqIds : StopProject(id)
    \/ Sweep
    \/ Handlers

SpecOps == Init /\ [][NextOps]_vars

\* SpecPort: one findAvailablePort call while other programs bind and release
\* ports
ScanStarts == {StartPort, StartPort + 1}
Contended == {StartPort, StartPort + 1, StartPort + ScanLen - 1}

NextPort ==
    \/ \E sp \in ScanStarts : FindPort(1, sp)
    \/ ScanListen(1)
    \/ ScanClose(1)
    \/ \E p \in Contended : ExtBind(p)
    \/ \E p \in Contended : ExtRelease(p)

SpecPort == Init /\ [][NextPort]_vars

\* SpecMany: MaxDeploys deployLocally calls with different titles, made one
\* after the other at any reading of the clock and all reaching running, their
\* child processes, and the sweeps, stops and DELETE requests that find
\* several records registered
TitleOf(d) == IF d % 2 = 1 THEN <<"A">> ELSE <<"a", "-", "1">>

Succeeds(d) ==
    \/ CreateStructureOk(d)
    \/ WriteFilesOk(d)
    \/ CopyWidgets(d, TRUE)
    \/ InstallClose(d, 0, <<>>, <<>>)
    \/ PortListen(d)
    \/ PortClose(d)
    \/ ProcData(d, "stdout", "Ready in")
    \/ \E code \in ExitCodes : ProcClose(d, code)

DeployNext(d) ==
    /\ \A e \in Deploys : e < d => pc[e] = "done"
    /\ Deploy(d, TitleOf(d))

NextMany ==
    \/ Tick
    \/ \E d \in Deploys : DeployNext(d)
    \/ \E d \in Deploys : Succeeds(d)
    \/ Sweep
    \/ \E id \in ReqIds : StopProject(id)
    \/ \E id \in ReqIds : DeleteBegin(id)
    \/ \E ok \in BOOLEAN : DeleteRm(ok)

\* no other program holds a port
InitMany == Init /\ extBound = {}

SpecMany == InitMany /\ [][NextMany]_vars

-----------------------------------------------------------------------------
\* The properties

\* the registry records that left the registry in this step
Removed == DOMAIN registry \ DOMAIN registry'

\* a deployLocally call fails in this step
Fails(d) == pc[d] \in InFlight /\ pc'[d] = "failed"

\* C1: when a deployLocally call returns after all its stages succeeded, the
\* statuses the registry has shown for its id from the call's registration on
\* are exactly creating, installing, starting, running, in this order.
C1_StatusSequence ==
    \A d \in Deploys : pc[d] = "done" => obs[d] = StatusOrder

\* C2: a record whose status is error keeps the status error from then on,
\* whatever the program does next.
C2_ErrorIsTerminal ==
    [][\A id \in DOMAIN registry :
          registry[id].status = "error" =>
              /\ id \in DOMAIN registry'
              /\ registry'[id].status = "error"]_vars

\* C3: the step in which a deployLocally call fails throws a message to the
\* caller and leaves the project registered with status error and that message
\* as its error, returned by getProject and getRunningProjects; and a record
\* leaves the registry only when a sweep removes it for its age.
C3_FailureRecorded ==
    [][/\ \A d \in Deploys :
            Fails(d) =>
                /\ thrown'[d] # NoError
                /\ HasProject(proj[d].id)'
                /\ registry'[proj[d].id].status = "error"
                /\ registry'[proj[d].id].error = thrown'[d]
                /\ registry'[proj[d].id] \in getRunningProjects'
       /\ \A id \in Removed :
            /\ sweep'.pc = "rm"
            /\ sweep'.target = SweepTarget(id)
            /\ IsOld(registry[id], sweep'.now, sweep'.maxAge)]_vars

\* a call failed because no port was available, and its record shows the error
C3_Witness ==
    \E d \in Deploys :
        /\ pc[d] = "failed"
        /\ thrown[d] = <<"No available ports found">>
        /\ HasProject(proj[d].id)
        /\ registry[proj[d].id].status = "error"
        /\ registry[proj[d].id].error = thrown[d]

\* a DELETE request answers 200 in this step
DeleteCompletes == del.pc = "rm" /\ del'.pc = "idle" /\ out'.res = "200"

\* C4: when a DELETE request for a registered id has answered 200, the
\* registry holds no record for that id: getProject finds nothing and
\* getRunningProjects does not list it.
C4_DeleteUnregisters ==
    [][DeleteCompletes =>
          /\ ~HasProject(del.id)'
          /\ del.project.id \notin {r.id : r \in getRunningProjects'}]_vars

\* C5: the directory a removal is aimed at, by a DELETE request or by a sweep,
\* is the directory of the record being removed, the one named by its id.
C5_RemovesOwnDirectory ==
    [][/\ (del.pc = "idle" /\ del'.pc = "rm") =>
            del'.target = registry[del'.id].path
       /\ \A id \in Removed : sweep'.target = registry[id].path]_vars

\* C6: a stop that follows a stop of the same registered id at once, and a
\* DELETE that follows a DELETE of the same registered id at once, report no
\* error: after the first call the second neither throws nor answers 500.
C6_SecondCallNoError ==
    [][/\ \A id \in ReqIds :
            (HasProject(id) /\ StopProject(id)) => ~StopThrows(id)'
       /\ \A id \in ReqIds :
            (HasProject(id) /\ Patch(id, "stop")) =>
                PatchResponse(id, "stop")' = "200"
       /\ DeleteCompletes => DeleteResponse(del.id)' # "500"]_vars

\* a stop has killed the process of a running project, whose record stays
\* registered for the second stop
C6_Witness ==
    /\ out.op = "stopProject"
    /\ out.res = "ok"
    /\ HasProject(out.id)
    /\ registry[out.id].status = "stopped"
    /\ killed[registry[out.id].process]

\* C7: stop, DELETE and GET of an id the registry does not hold report not
\* found without throwing.
C7_UnknownIdNotFound ==
    [][\A id \in ReqIds :
          ~HasProject(id) =>
              /\ StopProject(id) => out'.res # "throws"
              /\ Patch(id, "stop") => out'.res = "404"
              /\ DeleteBegin(id) => out'.res = "404"
              /\ Get(id) => out'.res = "404"]_vars

\* a sweep that read the directory listing returns in this step
SweepCompletes == sweep.pc # "idle" /\ sweep'.pc = "idle" /\ out'.res = "swept"

\* no deployLocally call is still at work on the project
Settled(id) ==
    \A d \in Deploys : proj[d].id = id => pc[d] \in {"idle", "done", "failed"}

\* the age of a record at the time a sweep took as its now
Age(project, t) == t - project.createdAt

\* C8: when a sweep returns, no record remains registered whose age exceeded
\* the maximum age when the sweep began, whether or not the record has a
\* directory (stated for the records no deployLocally call is still at work on).
C8_SweepRemovesAllOld ==
    [][SweepCompletes =>
          \A id \in DOMAIN registry' :
              Settled(id) => ~IsOld(registry'[id], sweep.now, sweep.maxAge)]_vars

\* C9: a sweep with maximum age M removes no record of age M or less, and when
\* it returns no record of age M + 1 remains registered.
C9_SweepBoundary ==
    [][/\ \A id \in Removed :
            Age(registry[id], sweep'.now) > sweep'.maxAge
       /\ SweepCompletes =>
            \A id \in DOMAIN registry' :
                Settled(id) =>
                    Age(registry'[id], sweep.now) # sweep.maxAge + 1]_vars

\* the ports findAvailablePort(start) may probe
ScanRange(s) == s.start .. (s.start + ScanLen - 1)

\* C10: findAvailablePort(start) probes start, start + 1, ... in this order and
\* only up to start + 99; the port it returns lies in start..start+99, was
\* bound by the probe itself, and every lower port of the range was found
\* unavailable when probed; it throws 'No available ports found' exactly when
\* all 100 ports were found unavailable.
C10_PortScan ==
    \A d \in Deploys :
        LET s == probe[d]
        IN  /\ pc[d] \in {"scan", "scanning", "returned", "threw"} =>
                  /\ s.busy = s.start .. (s.port - 1)
                  /\ (pc[d] = "threw") = (s.busy = ScanRange(s))
            /\ pc[d] \in {"scan", "scanning", "returned"} =>
                  s.port \in ScanRange(s)
            /\ pc[d] = "scanning" => s.port \notin extBound
            /\ pc[d] = "threw" => thrown[d] = <<"No available ports found">>

\* a scan returned the last port of its range after finding the 99 below it
\* unavailable
C10_Witness ==
    \E d \in Deploys :
        /\ pc[d] = "returned"
        /\ probe[d].port = probe[d].start + ScanLen - 1
        /\ Cardinality(probe[d].busy) = ScanLen - 1

\* no dev server has bound a port, and no other program holds one
NoRealBind ==
    /\ extBound = {}
    /\ \A d \in Deploys : proc[d] \in {"none", "spawned"}

\* C11: as long as no real server has bound a port, the ports findAvailablePort
\* has returned to different deployLocally calls are pairwise distinct, and all
\* lie in the scanned range.
C11_DistinctPorts ==
    NoRealBind =>
        \A d, e \in Deploys :
            (proj[d].port # NoPort /\ proj[e].port # NoPort) =>
                /\ proj[d].port \in AllPorts
                /\ d # e => proj[d].port # proj[e].port

\* call d shares its id with no other call, and its record is registered
OwnRecord(d) ==
    /\ HasProject(proj[d].id)
    /\ \A e \in Deploys \ {d} : proj[e].id # proj[d].id

\* the text sub occurs in the text s
Contains(s, sub) ==
    \E i \in 1 .. (Len(s) - Len(sub) + 1) : SubSeq(s, i, i + Len(sub) - 1) = sub

\* call d has failed in npm install, which exited with a non-zero code
InstallFailed(d) ==
    /\ pc[d] = "failed"
    /\ Len(thrown[d]) >= 1
    /\ thrown[d][1] = "npm install failed: "

\* C12: when npm install exits with a non-zero code, the record is registered
\* with status error and an error message that contains the stderr text of the
\* install, or its stdout text when stderr is empty; and the record of a call
\* that failed so has no port and no url, then and ever after, in the call's
\* own object and in the registry for an id no other call was given.
C12_InstallFailure ==
    [][\A d \in Deploys :
          /\ \A e \in ErrTexts, o \in OutTexts :
                InstallClose(d, 1, e, o) =>
                    /\ registry'[proj[d].id].status = "error"
                    /\ Contains(registry'[proj[d].id].error,
                                IF e # <<>> THEN e ELSE o)
          /\ InstallFailed(d)' =>
                /\ proj'[d].port = NoPort
                /\ proj'[d].url = NoUrl
                /\ OwnRecord(d)' =>
                      /\ registry'[proj[d].id].status = "error"
                      /\ registry'[proj[d].id].error = thrown'[d]
                      /\ registry'[proj[d].id].port = NoPort
                      /\ registry'[proj[d].id].url = NoUrl]_vars

\* npm install exited with code 1 and ENOTFOUND on stderr: the record shows it
C12_Witness ==
    \E d \in Deploys :
        /\ InstallFailed(d)
        /\ HasProject(proj[d].id)
        /\ registry[proj[d].id].status = "error"
        /\ Contains(registry[proj[d].id].error, <<"ENOTFOUND">>)
        /\ registry[proj[d].id].port = NoPort

\* the message of the startup timer
TimeoutMessage == <<"Dev server startup timeout">>

\* startDevServer of call d was rejected by its startup timer
TimedOut(d) == pc[d] = "failed" /\ thrown[d] = TimeoutMessage

C14_SoftAndHardFailures ==
    [][\A d \in Deploys :
          /\ CopyWidgets(d, FALSE) =>
                /\ pc'[d] = "install"
                /\ thrown'[d] = NoError
                /\ registry'[proj[d].id].status = "installing"
          /\ \A made \in BOOLEAN :
                (CreateStructureFail(d, made) \/ WriteFilesFail(d, made)) =>
                    /\ pc'[d] = "failed"
                    /\ thrown'[d] # NoError
                    /\ registry'[proj[d].id].status = "error"]_vars

\* the widget copy failed and was logged, and the call went on to running
C14_Witness ==
    \E d \in Deploys :
        /\ out.op = "copyWidgetLibrary"
        /\ out.id = proj[d].id
        /\ pc[d] = "done"
        /\ HasProject(proj[d].id)
        /\ registry[proj[d].id].status = "running"

\* the port and the url of a record agree
PortUrlAgree(r) ==
    /\ (r.url # NoUrl) = (r.port # NoPort)
    /\ r.port # NoPort =>
          /\ r.url = <<"http://localhost:", r.port>>
          /\ r.port \in 3001 .. 3100
    /\ r.status \in {"creating", "installing"} =>
          r.port = NoPort /\ r.url = NoUrl
    /\ r.status = "running" => r.port # NoPort /\ r.url # NoUrl

\* C15: every registered record has a url exactly when it has a port, the url
\* is http://localhost:<port>, the port lies in 3001..3100, a record with
\* status creating or installing has neither and a record with status running
\* has both; and the port a call has given its record is never changed, in the
\* call's own object and in the registry for an id no other call was given.
C15_PortAndUrl ==
    [][/\ \A id \in DOMAIN registry' : PortUrlAgree(registry'[id])
       /\ \A d \in Deploys :
            /\ proj[d].port # NoPort =>
                  /\ proj'[d].port = proj[d].port
                  /\ proj'[d].url = proj[d].url
            /\ (OwnRecord(d) /\ OwnRecord(d)'
                   /\ registry[proj[d].id].port # NoPort) =>
                  registry'[proj[d].id].port = registry[proj[d].id].port]_vars

\* two running records, one on port 3001 and one on port 3002
C15_Witness ==
    \E i, j \in DOMAIN registry :
        /\ registry[i].status = "running"
        /\ registry[i].port = 3001
        /\ registry[j].status = "running"
        /\ registry[j].port = 3002
        /\ registry[j].url = <<"http://localhost:", 3002>>

\* C16: a stopProject call on a record with status running sends the kill to
\* its process and leaves the record with status stopped, no process handle
\* and no url.
C16_StopClears ==
    [][\A id \in ReqIds :
          (HasProject(id) /\ registry[id].status = "running" /\ StopProject(id)) =>
              /\ killed'[registry[id].process]
              /\ registry'[id].status = "stopped"
              /\ registry'[id].process = NoProcess
              /\ registry'[id].url = NoUrl]_vars

\* C17: a status that becomes stopped was running just before: in the object of
\* every call, and in the registry record of every id no other call was given,
\* under stops, DELETE requests, sweeps and the exits of the child.
C17_StoppedOnlyFromRunning ==
    [][\A d \in Deploys :
          /\ (proj'[d].status = "stopped" /\ proj[d].status # "stopped") =>
                proj[d].status = "running"
          /\ (OwnRecord(d) /\ OwnRecord(d)'
                 /\ registry'[proj[d].id].status = "stopped"
                 /\ registry[proj[d].id].status # "stopped") =>
                registry[proj[d].id].status = "running"]_vars

\* a record is stopped because its child exited by itself, unkilled
C17_Witness ==
    \E d \in Deploys :
        /\ OwnRecord(d)
        /\ registry[proj[d].id].status = "stopped"
        /\ proc[d] = "closed"
        /\ ~killed[d]

\* C18: two deployLocally calls never get the same id, whatever their titles
\* and the clock, so they have different registry keys and directories.
C18_UniqueIds ==
    \A d, e \in Deploys :
        (d # e /\ pc[d] # "idle" /\ pc[e] # "idle") =>
            /\ proj[d].id # proj[e].id
            /\ proj[d].path # proj[e].path

\* C19: a registered record that holds a process handle has status starting or
\* running; a record with status stopped or error holds none.
C19_HandleOnlyWhileLive ==
    \A id \in DOMAIN registry :
        /\ registry[id].process # NoProcess =>
              registry[id].status \in {"starting", "running"}
        /\ registry[id].status \in {"stopped", "error"} =>
              registry[id].process = NoProcess

\* the child of call d, never sent a kill, exits in this step while the record
\* of the call is registered with status running
ExitsOnItsOwn(d) ==
    /\ \E code \in ExitCodes : ProcClose(d, code)
    /\ ~killed[d]
    /\ OwnRecord(d)
    /\ registry[proj[d].id].status = "running"

\* C20: when the child of a running record exits on its own, the handling of
\* its exit leaves the record registered with status stopped, no process handle
\* and no url, and throws nothing to any caller.
C20_ExitMarksStopped ==
    [][\A d \in Deploys :
          ExitsOnItsOwn(d) =>
              /\ HasProject(proj[d].id)'
              /\ registry'[proj[d].id].status = "stopped"
              /\ registry'[proj[d].id].process = NoProcess
              /\ registry'[proj[d].id].url = NoUrl
              /\ thrown' = thrown
              /\ out' = out]_vars

\* the substrings startDevServer takes as a sign that the server listens
Sentinels == {"Ready in", "Local:", "localhost:port"}

\* C21: while startDevServer waits on a live child, a chunk holding any of the
\* sentinels ('Ready in', 'Local:', localhost:<port>) resolves it, on stdout
\* and on stderr alike.
C21_SentinelOnEitherStream ==
    \A d \in Deploys, s \in Streams, c \in Sentinels :
        (pc[d] = "launch" /\ Alive(d) /\ ~isReady[d]) =>
            ENABLED ProcData(d, s, c)

\* the position of a suspension point of deployLocally in the order of its
\* stages: structure creation, bundle write, widget copy, install, port
\* allocation, dev-server launch
StageNo(p) ==
    CASE p = "structure" -> 1
      [] p = "write"     -> 2
      [] p = "widgets"   -> 3
      [] p = "install"   -> 4
      [] p \in {"port", "probing"} -> 5
      [] p = "launch"    -> 6
      [] p = "done"      -> 7
      [] OTHER           -> 0

\* call d moves only from a stage to the next one or to its catch block, and
\* stays where it is once it has returned or thrown
StagesInOrder(d) ==
    /\ pc'[d] # pc[d] =>
          \/ pc'[d] = "failed" /\ pc[d] \in InFlight
          \/ StageNo(pc'[d]) = StageNo(pc[d]) + 1
          \/ pc[d] = "port" /\ pc'[d] = "probing"
    /\ pc[d] \in {"done", "failed"} => pc'[d] = pc[d]

\* the operation call d awaits rejects in this step
StageRejects(d) ==
    \/ \E made \in BOOLEAN : CreateStructureFail(d, made) \/ WriteFilesFail(d, made)
    \/ \E e \in ErrTexts, o \in OutTexts : InstallClose(d, 1, e, o)
    \/ InstallError(d)
    \/ /\ PortListen(d)
       /\ ~isPortAvailable(probe[d].port)
       /\ ~InScan(probe[d].port + 1, probe[d].start)
    \/ /\ pc[d] = "launch" /\ ~isReady[d]
       /\ \/ \E code \in ExitCodes : ProcClose(d, code)
          \/ StartupTimeout(d)
    \/ ProcError(d)

\* C22 as stated: the stages of one deployLocally call run in order, each
\* beginning only after the previous one succeeded, and a stage that fails,
\* the widget copy included, keeps every later stage from running, however
\* the other calls interleave.
C22_FailedStageStopsAll ==
    [][\A d \in Deploys :
          /\ StagesInOrder(d)
          /\ (StageRejects(d) \/ CopyWidgets(d, FALSE)) => pc'[d] = "failed"]_vars

\* C22, amended: the stages of one deployLocally call run in order, each
\* beginning only after the previous one returned; a stage that rejects ends
\* the call, so no later stage runs; a failed widget copy is swallowed and the
\* install follows it.
C22_StagesInOrder ==
    [][\A d \in Deploys :
          /\ StagesInOrder(d)
          /\ StageRejects(d) => pc'[d] = "failed"
          /\ CopyWidgets(d, FALSE) => pc'[d] = "install"]_vars

\* one call threw at its install, with no port probed and no child spawned,
\* while another call ran to its end
C22_Witness ==
    \E d, e \in Deploys :
        /\ pc[d] = "failed"
        /\ proj[d].status = "error"
        /\ proj[d].port = NoPort
        /\ proc[d] = "none"
        /\ pc[e] = "done"

\* the loop of a sweep goes on from the name at sweep.idx: the next listed
\* name that is registered and aged has its process killed, its record
\* unregistered and its directory removal begun; with no such name left the
\* sweep returns
SweepGoesOn ==
    LET j == NextMatch(sweep.list, sweep.idx)
    IN  IF j = 0
        THEN SweepCompletes /\ registry' = registry /\ killed' = killed
        ELSE LET id == sweep.list[j]
             IN  /\ registry[id].process # NoProcess =>
                       killed'[registry[id].process]
                 /\ id \notin DOMAIN registry'
                 /\ \A other \in DOMAIN registry \ {id} :
                       /\ other \in DOMAIN registry'
                       /\ registry'[other] = registry[other]
                 /\ sweep'.pc = "rm"
                 /\ sweep'.target = SweepTarget(id)

\* C23: when the removal of one aged record's directory fails during a sweep,
\* the sweep goes on: the next aged record it examines has the process it holds
\* killed, is unregistered and has its directory removal attempted, and the sweep ends by returning,
\* never by raising to its caller.
C23_SweepSurvivesRmFailure ==
    [][/\ SweepRm(FALSE) => SweepGoesOn
       /\ (sweep.pc # "idle" /\ sweep'.pc = "idle") =>
             /\ out'.op = "cleanupOldProjects"
             /\ out'.res \in {"swept", "readdir failed"}]_vars

\* a sweep failed to remove the directory of one record, went on to unregister
\* a second record that held a process, killed it, and is removing its directory
C23_Witness ==
    /\ sweep.pc = "rm"
    /\ sweep.idx = 2
    /\ sweep.list[1] \in dirs
    /\ ~HasProject(sweep.list[1])
    /\ ~HasProject(sweep.list[2])
    /\ \E d \in Deploys : proj[d].id = sweep.list[2] /\ killed[d]

\* C24: in every reachable state each registry record, and the object of each
\* deployLocally call, has an error message exactly when its status is error.
C24_ErrorIffStatusError ==
    /\ \A id \in DOMAIN registry :
          (registry[id].error # NoError) <=> (registry[id].status = "error")
    /\ \A d \in Deploys :
          (proj[d].error # NoError) <=> (proj[d].status = "error")

\* the record of a call that found no free port shows status error and that
\* message, and a stop was then requested for it
C24_Witness ==
    \E id \in DOMAIN registry :
        /\ registry[id].status = "error"
        /\ registry[id].error = <<"No available ports found">>
        /\ out = [op |-> "stopProject", id |-> id, res |-> "ok"]

\* C25: however a DELETE request and a sweep on the same id interleave, neither
\* raises an error: the DELETE answers 200, or 404 when the sweep has already
\* unregistered the record, never 500, and the sweep ends by returning with
\* its failures logged; a second kill and a missing directory stop neither.
C25_DeleteAndSweepRaiseNothing ==
    /\ out.op = "DELETE" => out.res \in {"200", "404"}
    /\ out.op = "cleanupOldProjects" => out.res \in {"swept", "readdir failed"}

\* a DELETE that stopped the running project awaits its fs.rm while a sweep,
\* having killed the process again and unregistered the record, awaits its own
C25_Witness ==
    /\ del.pc = "rm"
    /\ del.project.status = "running"
    /\ sweep.pc = "rm"
    /\ sweep.target = del.id
    /\ ~HasProject(del.id)
    /\ \E d \in Deploys : proj[d].id = del.id /\ killed[d]

\* C26: an id that a sweep has taken out of the registry stays out of it:
\* neither the 'close' handler of the killed dev server nor the deployLocally
\* call still at work on that id registers a record for it again. (Only a
\* sweep unregisters, so the id of a call that is absent was swept.)
C26_SweptIdStaysOut ==
    [][\A d \in Deploys :
          (pc[d] # "idle" /\ ~HasProject(proj[d].id)) =>
              ~HasProject(proj[d].id)']_vars

\* C27: while the dev-server child a deployLocally call spawned is alive and
\* has not been sent a kill, the registry holds a record for the id of that
\* call; a sweep or DELETE that acts during status starting leaves no such
\* process without a record.
C27_LiveProcessHasRecord ==
    \A d \in Deploys :
        (Alive(d) /\ ~killed[d]) => HasProject(proj[d].id)

\* the statuses of a record whose launch has not succeeded
NotYetRunning == {"creating", "installing", "starting", "error"}

\* C28: a stop of a record with status creating, installing, starting or error
\* changes no record and kills nothing, and it leaves the launch as it was:
\* the call, its child, its readiness flag and its timer go on, so a record
\* stopped while starting can still become running.
C28_StopBeforeRunningIsNoOp ==
    [][\A id \in ReqIds :
          (/\ HasProject(id)
           /\ registry[id].status \in NotYetRunning
           /\ StopProject(id) \/ Patch(id, "stop")) =>
              /\ registry' = registry
              /\ killed' = killed
              /\ out'.res \in {"ok", "200"}
              /\ <<pc, proj, proc, isReady, timer>>' = <<pc, proj, proc, isReady, timer>>]_vars

\* the last request was a stop that killed nothing, and the record of the call
\* is running with its child alive
C28_Witness ==
    \E d \in Deploys :
        /\ out = [op |-> "stopProject", id |-> proj[d].id, res |-> "ok"]
        /\ HasProject(proj[d].id)
        /\ registry[proj[d].id].status = "running"
        /\ registry[proj[d].id].process = d
        /\ Alive(d)
        /\ ~killed[d]

\* the registry record of id is the same after this step as before it, and no
\* kill is sent in this step to the child of a call that was given the id
Untouched(id) ==
    /\ id \in DOMAIN registry'
    /\ registry'[id] = registry[id]
    /\ \A d \in Deploys : proj[d].id = id => killed'[d] = killed[d]

\* a stop or DELETE request for id acts in this step
RequestOn(id) ==
    \/ StopProject(id)
    \/ DeleteBegin(id)
    \/ del.id = id /\ \E ok \in BOOLEAN : DeleteRm(ok)

\* C29: a step of a sweep leaves untouched, unkilled and registered, every
\* record whose age at the sweep's reading of the clock is at most its maximum
\* age; a stop or DELETE request for one id leaves the records of all other
\* ids untouched.
C29_OthersUntouched ==
    [][/\ (sweep.pc # "idle" /\ sweep' # sweep) =>
             \A id \in DOMAIN registry :
                 Age(registry[id], sweep.now) <= sweep.maxAge => Untouched(id)
       /\ \A id \in ReqIds :
             RequestOn(id) =>
                 \A other \in DOMAIN registry \ {id} : Untouched(other)]_vars

\* after a stop of one project, a sweep has unregistered that project, whose
\* age exceeded the maximum, and is removing its directory; the record of a
\* younger project is still registered, running and unkilled
C29_Witness ==
    \E d, e \in Deploys :
        /\ sweep.pc = "rm"
        /\ sweep.target = proj[d].id
        /\ ~HasProject(proj[d].id)
        /\ out = [op |-> "stopProject", id |-> proj[d].id, res |-> "ok"]
        /\ HasProject(proj[e].id)
        /\ Age(registry[proj[e].id], sweep.now) <= sweep.maxAge
        /\ registry[proj[e].id].status = "running"
        /\ ~killed[e]

\* C30: the startup timer sends a kill only to a child that has neither
\* signalled readiness nor exited: a ready child is never killed by the timer,
\* and a child whose early exit already failed the launch is sent no kill.
C30_TimerKillsOnlyPending ==
    [][\A d \in Deploys :
          (StartupTimeout(d) /\ killed'[d] /\ ~killed[d]) =>
              ~isReady[d] /\ Alive(d)]_vars

====
